---- MODULE Spec2Model ----
(***************************************************************************)
(* Model of app.py, the Data Analysis Chatbot: the Response Formatter      *)
(* (format_response), the Chart Selector (plot_and_display_chart), the     *)
(* Query Router (chat_with_csv) and the Streamlit script that holds the   *)
(* session Dataset and the Conversation.                                   *)
(*                                                                         *)
(* A Python str is a sequence of one-character strings, so that lower(),   *)
(* split(), strip(), replace() and the `in` test are computed character    *)
(* by character as the interpreter computes them.                          *)
(***************************************************************************)
EXTENDS Integers, Sequences, FiniteSets, TLC

VARIABLES
    \* one call of format_response
    fmt_in,         \* its argument
    fmt_out,        \* what it returned (Pending before the call)
    fmt_again,      \* format_response applied to the string it returned
    \* one call of plot_and_display_chart
    chart_df,       \* the Dataset
    chart_prompt,   \* the Query
    chart_fault,    \* whether the plotting library raises
    chart_out,      \* what the call did (NoPlot before the call)
    \* one call of chat_with_csv
    route_df,       \* the Dataset
    route_prompt,   \* the Query
    route_env,      \* what the external agent and the plotting library do
    route_out,      \* what the call did (NotCalled before the call)
    \* the session
    uploaded_file,  \* the file the uploader widget holds, or NoFile
    session_df,     \* st.session_state['df'], or NoDataset
    messages,       \* st.session_state.messages
    last_run        \* what the last run of the script did

fmt_vars == <<fmt_in, fmt_out, fmt_again>>

chart_vars == <<chart_df, chart_prompt, chart_fault, chart_out>>

route_vars == <<route_df, route_prompt, route_env, route_out>>

session_vars == <<uploaded_file, session_df, messages, last_run>>

vars == <<fmt_vars, chart_vars, route_vars, session_vars>>

(***************************************************************************)
(* Literals of app.py.                                                     *)
(***************************************************************************)
NO_RESULTS == <<"N","o"," ","r","e","s","u","l","t","s"," ","f","o","u","n","d",".">>

ERROR_FORMATTING ==
    <<"E","r","r","o","r"," ","f","o","r","m","a","t","t","i","n","g"," ",
      "r","e","s","p","o","n","s","e",":"," ">>

BULLET == <<"-"," ">>

BOLD == <<"*","*">>

BOLD_COLON == <<"*","*",":"," ">>

SQUOTE == <<"'">>

DQUOTE == <<"\"">>

(***************************************************************************)
(* Bounds of the model.                                                    *)
(***************************************************************************)
\* longest list or mapping an AnalysisResult holds
MaxLen == 2

\* most Queries answered in one session
MaxQueries == 2

(***************************************************************************)
(* Python str operations.                                                  *)
(***************************************************************************)
UpperLetters ==
    <<"A","B","C","D","E","F","G","H","I","J","K","L","M",
      "N","O","P","Q","R","S","T","U","V","W","X","Y","Z">>

LowerLetters ==
    <<"a","b","c","d","e","f","g","h","i","j","k","l","m",
      "n","o","p","q","r","s","t","u","v","w","x","y","z">>

\* str.lower() on one character
LowerChar(c) ==
    IF \E i \in DOMAIN UpperLetters : UpperLetters[i] = c
    THEN LowerLetters[CHOOSE i \in DOMAIN UpperLetters : UpperLetters[i] = c]
    ELSE c

\* str.lower()
Lower(s) == [i \in DOMAIN s |-> LowerChar(s[i])]

\* sub occurs in s at (1-based) position i
OccursAt(s, sub, i) ==
    /\ i >= 1
    /\ i + Len(sub) - 1 <= Len(s)
    /\ SubSeq(s, i, i + Len(sub) - 1) = sub

\* the Python test `sub in s`
Contains(s, sub) == \E i \in 1..(Len(s) + 1) : OccursAt(s, sub, i)

\* s.split(sep)[-1]: the text after the last occurrence of sep, s itself
\* when sep does not occur
SplitLast(s, sep) ==
    IF Contains(s, sep)
    THEN LET last == CHOOSE i \in 1..Len(s) :
                        /\ OccursAt(s, sep, i)
                        /\ \A j \in 1..Len(s) : OccursAt(s, sep, j) => j <= i
         IN  SubSeq(s, last + Len(sep), Len(s))
    ELSE s

Whitespace == {" ", "\t", "\n"}

RECURSIVE LStrip(_)
LStrip(s) ==
    IF s # <<>> /\ Head(s) \in Whitespace THEN LStrip(Tail(s)) ELSE s

RECURSIVE RStrip(_)
RStrip(s) ==
    IF s # <<>> /\ s[Len(s)] \in Whitespace
    THEN RStrip(SubSeq(s, 1, Len(s) - 1))
    ELSE s

\* str.strip()
Strip(s) == RStrip(LStrip(s))

\* str.replace(old, new): left to right, non-overlapping (old is not empty)
RECURSIVE Replace(_, _, _)
Replace(s, old, new) ==
    IF Len(s) < Len(old) THEN s
    ELSE IF SubSeq(s, 1, Len(old)) = old
         THEN new \o Replace(SubSeq(s, Len(old) + 1, Len(s)), old, new)
         ELSE <<Head(s)>> \o Replace(Tail(s), old, new)

\* "\n".join(lines)
RECURSIVE Join(_)
Join(lines) ==
    IF lines = <<>> THEN <<>>
    ELSE IF Len(lines) = 1 THEN lines[1]
    ELSE lines[1] \o <<"\n">> \o Join(Tail(lines))

Digits == <<"0","1","2","3","4","5","6","7","8","9">>

\* str(n) of a non-negative int
RECURSIVE IntToStr(_)
IntToStr(n) ==
    IF n < 10 THEN <<Digits[n + 1]>>
    ELSE IntToStr(n \div 10) \o <<Digits[(n % 10) + 1]>>

(***************************************************************************)
(* Python values.  A scalar is a str, an int, a whole-valued float, a bool, *)
(* or an object whose __str__ raises with message msg.                     *)
(***************************************************************************)
StrVal(s) == [kind |-> "str", s |-> s, n |-> 0]
IntVal(n) == [kind |-> "int", s |-> <<>>, n |-> n]
FloatVal(n) == [kind |-> "float", s |-> IntToStr(n) \o <<".", "0">>, n |-> n]
BoolVal(b) ==
    [kind |-> "bool",
     s |-> IF b THEN <<"T","r","u","e">> ELSE <<"F","a","l","s","e">>,
     n |-> 0]
BadVal(msg) == [kind |-> "bad", s |-> msg, n |-> 0]

\* str(v) succeeds
Printable(v) == v.kind # "bad"

\* str(v), which is also what f"{v}" interpolates
Str(v) == IF v.kind = "int" THEN IntToStr(v.n) ELSE v.s

(***************************************************************************)
(* pandas DataFrame: named, typed columns of equal length.  Column names   *)
(* are distinct, as read_csv and read_excel make them.                     *)
(***************************************************************************)
Column(name, dtype, values) == [name |-> name, dtype |-> dtype, values |-> values]

DataFrame(columns) == [columns |-> columns]

EmptyFrame == DataFrame(<<>>)

\* df.columns
ColumnNames(df) == [i \in DOMAIN df.columns |-> df.columns[i].name]

\* name in df.columns
HasColumn(df, name) == \E i \in DOMAIN df.columns : df.columns[i].name = name

\* df[name], for a name in df.columns
GetColumn(df, name) ==
    df.columns[CHOOSE i \in DOMAIN df.columns : df.columns[i].name = name]

\* Series.unique().tolist(): the distinct values in first-observed order
RECURSIVE Unique(_)
Unique(values) ==
    IF values = <<>> THEN <<>>
    ELSE LET init == SubSeq(values, 1, Len(values) - 1)
             last == values[Len(values)]
         IN  IF \E i \in DOMAIN init : init[i] = last
             THEN Unique(init)
             ELSE Append(Unique(init), last)

(***************************************************************************)
(* What a function of app.py returns to the script: a str or a DataFrame.  *)
(***************************************************************************)
PyStr(s) == [kind |-> "str", s |-> s, df |-> EmptyFrame]
PyFrame(df) == [kind |-> "df", s |-> <<>>, df |-> df]

\* no value yet: the call has not been made
Pending == [kind |-> "pending", s |-> <<>>, df |-> EmptyFrame]

(***************************************************************************)
(* AnalysisResult: what the external agent returns, or what the direct     *)
(* lookup builds: a DataFrame, a list, a dict, None or a scalar.           *)
(***************************************************************************)
Result(kind, items, entries, val, df) ==
    [kind |-> kind, items |-> items, entries |-> entries, val |-> val, df |-> df]

ResFrame(df) == Result("df", <<>>, <<>>, StrVal(<<>>), df)
ResList(items) == Result("list", items, <<>>, StrVal(<<>>), EmptyFrame)
ResDict(entries) == Result("dict", <<>>, entries, StrVal(<<>>), EmptyFrame)
ResNone == Result("none", <<>>, <<>>, StrVal(<<>>), EmptyFrame)
ResScalar(v) == Result("scalar", <<>>, <<>>, v, EmptyFrame)

\* a str returned by format_response, handed to format_response again
ResOfStr(s) == ResScalar(StrVal(s))

Entry(key, value) == [key |-> key, value |-> value]

(***************************************************************************)
(* format_response (app.py 171-189).                                       *)
(***************************************************************************)
\* the first value of vs whose __str__ raises: the exception the try sees
FirstBad(vs) == vs[CHOOSE i \in DOMAIN vs :
                    /\ ~Printable(vs[i])
                    /\ \A j \in DOMAIN vs : ~Printable(vs[j]) => i <= j]

AllPrintable(vs) == \A i \in DOMAIN vs : Printable(vs[i])

\* except Exception as e: return f"Error formatting response: {str(e)}"
FormatError(v) == PyStr(ERROR_FORMATTING \o v.s)

\* str.replace(old, new, 1): the first occurrence only
RECURSIVE ReplaceFirst(_, _, _)
ReplaceFirst(s, old, new) ==
    IF Len(s) < Len(old) THEN s
    ELSE IF SubSeq(s, 1, Len(old)) = old
         THEN new \o SubSeq(s, Len(old) + 1, Len(s))
         ELSE <<Head(s)>> \o ReplaceFirst(Tail(s), old, new)

\* seeded fault: only the first quote of each kind is removed
StripQuotes_first_only(s) ==
    ReplaceFirst(ReplaceFirst(s, SQUOTE, <<>>), DQUOTE, <<>>)

\* response_str.replace("'", "").replace('"', '')
StripQuotes(s) == Replace(Replace(s, SQUOTE, <<>>), DQUOTE, <<>>)

\* "\n".join([f"- {item}" for item in response])
FormatList(items) ==
    IF AllPrintable(items)
    THEN PyStr(Join([i \in DOMAIN items |-> BULLET \o Str(items[i])]))
    ELSE FormatError(FirstBad(items))

\* the keys and values of a dict in the order items() visits them
KeysAndValues(entries) ==
    [i \in 1..(2 * Len(entries)) |->
        IF i % 2 = 1 THEN entries[(i + 1) \div 2].key ELSE entries[i \div 2].value]

\* "\n".join([f"**{key}**: {value}" for key, value in response.items()])
FormatDict(entries) ==
    IF AllPrintable(KeysAndValues(entries))
    THEN PyStr(Join([i \in DOMAIN entries |->
                        BOLD \o Str(entries[i].key) \o BOLD_COLON
                             \o Str(entries[i].value)]))
    ELSE FormatError(FirstBad(KeysAndValues(entries)))

FormatScalar(v) ==
    IF Printable(v) THEN PyStr(StripQuotes(Str(v))) ELSE FormatError(v)

format_response(response) ==
    CASE response.kind = "df" -> PyFrame(response.df)
      [] response.kind = "list" -> FormatList(response.items)
      [] response.kind = "dict" -> FormatDict(response.entries)
      [] response.kind = "none" -> PyStr(NO_RESULTS)
      [] OTHER -> FormatScalar(response.val)

(***************************************************************************)
(* plot_and_display_chart (app.py 53-169).                                 *)
(***************************************************************************)
k_bar == <<"b","a","r">>
k_barplot == <<"b","a","r","p","l","o","t">>
k_pie == <<"p","i","e">>
k_pie_chart == <<"p","i","e"," ","c","h","a","r","t">>
k_line == <<"l","i","n","e">>
k_lineplot == <<"l","i","n","e","p","l","o","t">>
k_scatter == <<"s","c","a","t","t","e","r">>
k_scatterplot == <<"s","c","a","t","t","e","r","p","l","o","t">>
k_hist == <<"h","i","s","t">>
k_histogram == <<"h","i","s","t","o","g","r","a","m">>
k_box == <<"b","o","x">>
k_boxplot == <<"b","o","x","p","l","o","t">>
k_heatmap == <<"h","e","a","t","m","a","p">>
k_correlation == <<"c","o","r","r","e","l","a","t","i","o","n">>

\* the names of the columns of df whose dtype is in dtypes, in column order
RECURSIVE SelectNames(_, _)
SelectNames(columns, dtypes) ==
    IF columns = <<>> THEN <<>>
    ELSE IF Head(columns).dtype \in dtypes
         THEN <<Head(columns).name>> \o SelectNames(Tail(columns), dtypes)
         ELSE SelectNames(Tail(columns), dtypes)

\* df.select_dtypes(include=['int64', 'float64']).columns
numeric_cols(df) == SelectNames(df.columns, {"int64", "float64"})

\* df.select_dtypes(include=['object', 'category']).columns
categorical_cols(df) == SelectNames(df.columns, {"object", "category"})

\* a chart handed to st.pyplot: the plotting call and the columns it draws
Chart(kind, x, y) == [kind |-> kind, x |-> x, y |-> y]

\* what one call did: the branch of the if/elif chain it took, the charts
\* st.pyplot displayed, and the st.warning / st.error it showed
ChartOutcome(branch, charts, notice) ==
    [branch |-> branch, charts |-> charts, notice |-> notice]

\* the tail of a branch whose column requirement is met: the plotting calls
\* raise (fault) and the except shows st.error, or st.pyplot displays chart
Render(branch, chart, fault) ==
    IF fault THEN ChartOutcome(branch, <<>>, "error")
    ELSE ChartOutcome(branch, <<chart>>, "none")

\* st.warning(...); return
Abort(branch) == ChartOutcome(branch, <<>>, "warning")

BarBranch(num, cat, fault) ==
    IF Len(cat) > 0
    THEN IF Len(num) > 0
         THEN Render("bar", Chart("barplot", cat[1], num[1]), fault)
         ELSE Render("bar", Chart("countplot", cat[1], <<>>), fault)
    ELSE Abort("bar")

PieBranch(num, cat, fault) ==
    IF Len(cat) > 0
    THEN IF Len(num) > 0
         THEN Render("pie", Chart("pie_sum", cat[1], num[1]), fault)
         ELSE Render("pie", Chart("pie_counts", cat[1], <<>>), fault)
    ELSE Abort("pie")

LineBranch(num, cat, fault) ==
    IF Len(num) >= 2
    THEN Render("line", Chart("lineplot", num[1], num[2]), fault)
    ELSE Abort("line")

ScatterBranch(num, cat, fault) ==
    IF Len(num) >= 2
    THEN Render("scatter", Chart("scatterplot", num[1], num[2]), fault)
    ELSE Abort("scatter")

HistBranch(num, cat, fault) ==
    IF Len(num) > 0
    THEN Render("hist", Chart("histplot", num[1], <<>>), fault)
    ELSE Abort("hist")

BoxBranch(num, cat, fault) ==
    IF Len(num) > 0 /\ Len(cat) > 0
    THEN Render("box", Chart("boxplot", cat[1], num[1]), fault)
    ELSE Abort("box")

HeatmapBranch(branch, num, cat, fault) ==
    IF Len(num) >= 2
    THEN Render(branch, Chart("heatmap", <<>>, <<>>), fault)
    ELSE Abort(branch)

\* seeded fault: the pie keyword is tested before the bar keyword
plot_and_display_chart_pie_first(df, prompt, fault) ==
    LET num == numeric_cols(df)
        cat == categorical_cols(df)
        prompt_lower == Lower(prompt)
    IN  IF Contains(prompt_lower, k_pie) \/ Contains(prompt_lower, k_pie_chart)
        THEN PieBranch(num, cat, fault)
        ELSE IF Contains(prompt_lower, k_bar) \/ Contains(prompt_lower, k_barplot)
        THEN BarBranch(num, cat, fault)
        ELSE IF Contains(prompt_lower, k_line) \/ Contains(prompt_lower, k_lineplot)
        THEN LineBranch(num, cat, fault)
        ELSE IF Contains(prompt_lower, k_scatter) \/ Contains(prompt_lower, k_scatterplot)
        THEN ScatterBranch(num, cat, fault)
        ELSE IF Contains(prompt_lower, k_hist) \/ Contains(prompt_lower, k_histogram)
        THEN HistBranch(num, cat, fault)
        ELSE IF Contains(prompt_lower, k_box) \/ Contains(prompt_lower, k_boxplot)
        THEN BoxBranch(num, cat, fault)
        ELSE IF Contains(prompt_lower, k_heatmap) \/ Contains(prompt_lower, k_correlation)
        THEN HeatmapBranch("heatmap", num, cat, fault)
        ELSE HeatmapBranch("default", num, cat, fault)

\* fault: the plotting library raises while the chosen chart is built
plot_and_display_chart(df, prompt, fault) ==
    LET num == numeric_cols(df)
        cat == categorical_cols(df)
        prompt_lower == Lower(prompt)
    IN  IF Contains(prompt_lower, k_bar) \/ Contains(prompt_lower, k_barplot)
        THEN BarBranch(num, cat, fault)
        ELSE IF Contains(prompt_lower, k_pie) \/ Contains(prompt_lower, k_pie_chart)
        THEN PieBranch(num, cat, fault)
        ELSE IF Contains(prompt_lower, k_line) \/ Contains(prompt_lower, k_lineplot)
        THEN LineBranch(num, cat, fault)
        ELSE IF Contains(prompt_lower, k_scatter) \/ Contains(prompt_lower, k_scatterplot)
        THEN ScatterBranch(num, cat, fault)
        ELSE IF Contains(prompt_lower, k_hist) \/ Contains(prompt_lower, k_histogram)
        THEN HistBranch(num, cat, fault)
        ELSE IF Contains(prompt_lower, k_box) \/ Contains(prompt_lower, k_boxplot)
        THEN BoxBranch(num, cat, fault)
        ELSE IF Contains(prompt_lower, k_heatmap) \/ Contains(prompt_lower, k_correlation)
        THEN HeatmapBranch("heatmap", num, cat, fault)
        ELSE HeatmapBranch("default", num, cat, fault)

(***************************************************************************)
(* chat_with_csv (app.py 191-249).                                         *)
(***************************************************************************)
ERROR_PROCESSING ==
    <<"E","r","r","o","r"," ","p","r","o","c","e","s","s","i","n","g"," ",
      "q","u","e","r","y",":"," ">>

k_what_are_all == <<"w","h","a","t"," ","a","r","e"," ","a","l","l">>
k_list_all == <<"l","i","s","t"," ","a","l","l">>
k_all == <<"a","l","l">>
k_names == <<"n","a","m","e","s">>
k_name == <<"n","a","m","e">>
k_items == <<"i","t","e","m","s">>
k_item == <<"i","t","e","m">>

\* ["plot", "graph", "chart", "visualize", "show"]
PlotWords ==
    {<<"p","l","o","t">>, <<"g","r","a","p","h">>, <<"c","h","a","r","t">>,
     <<"v","i","s","u","a","l","i","z","e">>, <<"s","h","o","w">>}

\* What an external call did: it raised an exception whose str() is msg, or
\* it returned result.
Raised(msg) == [raised |-> TRUE, msg |-> msg, result |-> ResNone]
Returned(result) == [raised |-> FALSE, msg |-> <<>>, result |-> result]

\* What the external collaborators do during one call of chat_with_csv:
\*   construct   OpenAI(...) and SmartDataframe(...) (a raise of either)
\*   chat        pandas_ai.chat(prompt), when it is called
\*   plot_fault  the plotting library raises, when a chart is built
Env(construct, chat, plot_fault) ==
    [construct |-> construct, chat |-> chat, plot_fault |-> plot_fault]

\* "what are all" in prompt.lower() or "list all" in prompt.lower()
ListIntent(prompt) ==
    \/ Contains(Lower(prompt), k_what_are_all)
    \/ Contains(Lower(prompt), k_list_all)

\* the text of s before its first space
RECURSIVE FirstWord(_)
FirstWord(s) ==
    IF s = <<>> \/ Head(s) = " " THEN <<>>
    ELSE <<Head(s)>> \o FirstWord(Tail(s))

\* seeded fault: only the first word after "all" is kept
column_name_first_word(prompt) ==
    Replace(Replace(FirstWord(Strip(SplitLast(Lower(prompt), k_all))),
                    k_names, k_name),
            k_items, k_item)

\* seeded fault: the column name is derived from the Query as typed, and
\* lower() is used for the intent test only
column_name_as_typed(prompt) ==
    Replace(Replace(Strip(SplitLast(prompt, k_all)), k_names, k_name),
            k_items, k_item)

\* prompt.lower().split("all")[-1].strip()
\*     .replace("names", "name").replace("items", "item")
column_name(prompt) ==
    Replace(Replace(Strip(SplitLast(Lower(prompt), k_all)), k_names, k_name),
            k_items, k_item)

\* any(word in prompt.lower() for word in [...])
PlotIntent(prompt) == \E word \in PlotWords : Contains(Lower(prompt), word)

NoPlot == ChartOutcome("none", <<>>, "none")

\* What one call did: the value it returned (or the exception that left
\* it), the calls it made in order, the column the direct lookup read and
\* what the Chart Selector did.
CallOutcome(raised, ret, log, lookup, plot) ==
    [raised |-> raised, ret |-> ret, log |-> log, lookup |-> lookup, plot |-> plot]

NotCalled == CallOutcome(FALSE, Pending, <<>>, <<>>, NoPlot)

\* seeded fault: the except re-raises, so the exception leaves the call
\* (ret then holds str(e))
ProcessingError_reraise(msg, log) ==
    CallOutcome(TRUE, PyStr(msg), Append(log, "except"), <<>>, NoPlot)

\* except Exception as e: return f"Error processing query: {str(e)}"
ProcessingError(msg, log) ==
    CallOutcome(FALSE, PyStr(ERROR_PROCESSING \o msg), Append(log, "except"),
                <<>>, NoPlot)

\* result = df[column_name].unique().tolist(); return format_response(result)
\* With distinct column names df[column_name] is a Series and neither call
\* raises, so the except of lines 238-239 is not entered.
DirectLookup(df, name) ==
    CallOutcome(FALSE,
                format_response(ResList(Unique(GetColumn(df, name).values))),
                <<"construct", "lookup", "format">>, name, NoPlot)

\* seeded fault: the Chart Selector runs before the agent is asked
Delegate_plot_first(df, prompt, env) ==
    IF PlotIntent(prompt)
    THEN IF env.chat.raised
         THEN CallOutcome(FALSE, PyStr(ERROR_PROCESSING \o env.chat.msg),
                          <<"construct", "plot", "chat", "except">>, <<>>,
                          plot_and_display_chart(df, prompt, env.plot_fault))
         ELSE CallOutcome(FALSE, format_response(env.chat.result),
                          <<"construct", "plot", "chat", "format">>, <<>>,
                          plot_and_display_chart(df, prompt, env.plot_fault))
    ELSE IF env.chat.raised
    THEN CallOutcome(FALSE, PyStr(ERROR_PROCESSING \o env.chat.msg),
                     <<"construct", "chat", "except">>, <<>>, NoPlot)
    ELSE CallOutcome(FALSE, format_response(env.chat.result),
                     <<"construct", "chat", "format">>, <<>>, NoPlot)

\* result = pandas_ai.chat(prompt), the Chart Selector when the prompt is
\* about plotting, return format_response(result)
Delegate(df, prompt, env) ==
    IF env.chat.raised
    THEN ProcessingError(env.chat.msg, <<"construct", "chat">>)
    ELSE IF PlotIntent(prompt)
    THEN CallOutcome(FALSE, format_response(env.chat.result),
                     <<"construct", "chat", "plot", "format">>, <<>>,
                     plot_and_display_chart(df, prompt, env.plot_fault))
    ELSE CallOutcome(FALSE, format_response(env.chat.result),
                     <<"construct", "chat", "format">>, <<>>, NoPlot)

chat_with_csv(df, prompt, env) ==
    IF env.construct.raised
    THEN ProcessingError(env.construct.msg, <<"construct">>)
    ELSE IF ListIntent(prompt) /\ HasColumn(df, column_name(prompt))
    THEN DirectLookup(df, column_name(prompt))
    ELSE Delegate(df, prompt, env)

(***************************************************************************)
(* The script (app.py 49-51 and 251-327): Streamlit runs it from top to    *)
(* bottom on every interaction, with the uploader holding its file.        *)
(***************************************************************************)
\* An uploaded file: its name, and what pd.read_csv and pd.read_excel do
\* with its bytes.
File(name, read_csv, read_excel) ==
    [name |-> name, read_csv |-> read_csv, read_excel |-> read_excel]

\* st.file_uploader returned None
NoFile == File(<<>>, Raised(<<>>), Raised(<<>>))

\* 'df' not in st.session_state
NoDataset == [present |-> FALSE, df |-> EmptyFrame]

Stored(df) == [present |-> TRUE, df |-> df]

\* uploaded_file.name.split('.')[-1].lower()
file_extension(file) == Lower(SplitLast(file.name, <<".">>))

x_csv == <<"c","s","v">>
x_xlsx == <<"x","l","s","x">>
x_xls == <<"x","l","s">>

\* What the upload block does to st.session_state['df'], and the message it
\* shows: "success", "unsupported" (st.error, line 268), "read_error"
\* (st.error, line 275) or "none" when no file is held.
UploadOutcome(dataset, notice) == [dataset |-> dataset, notice |-> notice]

\* seeded fault: a failed parse clears the stored Dataset
StoreParsed_clears(old, parsed) ==
    IF parsed.raised THEN UploadOutcome(NoDataset, "read_error")
    ELSE UploadOutcome(Stored(parsed.result.df), "success")

\* the body of `if uploaded_file is not None:` after a parser was chosen
StoreParsed(old, parsed) ==
    IF parsed.raised THEN UploadOutcome(old, "read_error")
    ELSE UploadOutcome(Stored(parsed.result.df), "success")

upload_handler(old, file) ==
    IF file = NoFile THEN UploadOutcome(old, "none")
    ELSE IF file_extension(file) = x_csv THEN StoreParsed(old, file.read_csv)
    ELSE IF file_extension(file) \in {x_xlsx, x_xls}
    THEN StoreParsed(old, file.read_excel)
    ELSE UploadOutcome(old, "unsupported")

Turn(role, content) == [role |-> role, content |-> content]

\* seeded fault: a table is displayed and not appended to the Conversation
chat_input_handler_drops_tables(history, call, prompt) ==
    LET asked == Append(history, Turn("user", PyStr(prompt)))
    IN  IF call.raised
        THEN Append(asked, Turn("assistant", PyStr(ERROR_PROCESSING \o call.ret.s)))
        ELSE IF call.ret.kind = "df" THEN asked
        ELSE Append(asked, Turn("assistant", call.ret))

\* The chat input handler (lines 304-325) for a submitted prompt: the user
\* turn, the call, and the assistant turn of either arm of the try (when an
\* exception left the call, call.ret holds its str()).
chat_input_handler(history, call, prompt) ==
    LET asked == Append(history, Turn("user", PyStr(prompt)))
    IN  IF call.raised
        THEN Append(asked, Turn("assistant", PyStr(ERROR_PROCESSING \o call.ret.s)))
        ELSE Append(asked, Turn("assistant", call.ret))

(***************************************************************************)
(* Datasets the model uploads.                                             *)
(***************************************************************************)
c_item == <<"i","t","e","m">>
c_Item == <<"I","t","e","m">>
c_price == <<"p","r","i","c","e">>
c_qty == <<"q","t","y">>
c_name == <<"n","a","m","e">>
c_item_name == <<"i","t","e","m"," ","n","a","m","e">>

v_pen == StrVal(<<"p","e","n">>)
v_cup == StrVal(<<"c","u","p">>)
v_its == StrVal(<<"i","t","'","s">>)

\* item,price: the Dataset of the end-to-end example
DF_ItemPrice ==
    DataFrame(<<Column(c_item, "object", <<v_pen, v_cup, v_pen>>),
                Column(c_price, "int64", <<IntVal(3), IntVal(5), IntVal(3)>>)>>)

\* a capitalised header, and two numeric columns
DF_Upper ==
    DataFrame(<<Column(c_Item, "object", <<v_cup, v_pen>>),
                Column(c_price, "int64", <<IntVal(5), IntVal(3)>>),
                Column(c_qty, "float64", <<FloatVal(1), FloatVal(1)>>)>>)

\* text columns only, one of them named with two words
DF_Names ==
    DataFrame(<<Column(c_item_name, "object", <<v_its, v_pen, v_its>>),
                Column(c_name, "object", <<v_cup, v_cup, v_pen>>)>>)

\* numeric columns only
DF_Nums ==
    DataFrame(<<Column(c_price, "int64", <<IntVal(3), IntVal(12)>>),
                Column(c_qty, "int64", <<IntVal(2), IntVal(2)>>)>>)

\* a header line and no rows
DF_Empty == DataFrame(<<Column(c_item, "object", <<>>)>>)

\* a column that is neither numeric nor categorical
DF_Flags ==
    DataFrame(<<Column(<<"o","k">>, "bool", <<BoolVal(TRUE), BoolVal(FALSE)>>),
                Column(c_price, "int64", <<IntVal(3), IntVal(5)>>)>>)

Datasets == {DF_ItemPrice, DF_Upper, DF_Names, DF_Nums, DF_Empty, DF_Flags}

(***************************************************************************)
(* Queries the model asks.                                                 *)
(***************************************************************************)
q_item_names ==
    <<"w","h","a","t"," ","a","r","e"," ","a","l","l"," ","i","t","e","m"," ",
      "n","a","m","e","s">>
q_list_items == <<"l","i","s","t"," ","a","l","l"," ","i","t","e","m","s">>
q_List_Items == <<"L","i","s","t"," ","A","L","L"," ","I","t","e","m","s">>
q_list_Item == <<"l","i","s","t"," ","a","l","l"," ","I","t","e","m">>
q_list_names == <<"l","i","s","t"," ","a","l","l"," ","n","a","m","e","s">>
q_prices ==
    <<"w","h","a","t"," ","a","r","e"," ","a","l","l"," ","p","r","i","c","e","s">>
q_show_list_price ==
    <<"s","h","o","w"," ","a","n","d"," ","l","i","s","t"," ","a","l","l"," ",
      "p","r","i","c","e">>
q_plot_hist ==
    <<"p","l","o","t"," ","a"," ","h","i","s","t","o","g","r","a","m"," ",
      "o","f"," ","p","r","i","c","e">>
q_small_items ==
    <<"l","i","s","t"," ","a","l","l"," ","s","m","a","l","l"," ","i","t","e","m","s">>
q_average == <<"a","v","e","r","a","g","e"," ","p","r","i","c","e">>
q_show_pie ==
    <<"s","h","o","w"," ","m","e"," ","a"," ","p","i","e"," ","c","h","a","r","t">>
q_bar_chart == <<"b","a","r"," ","c","h","a","r","t"," ","p","l","e","a","s","e">>
q_bar_and_pie ==
    <<"b","a","r"," ","a","n","d"," ","p","i","e"," ","c","h","a","r","t">>
q_PIE == <<"P","I","E"," ","c","h","a","r","t">>
q_outline_hist ==
    <<"o","u","t","l","i","n","e"," ","t","h","e"," ","h","i","s","t","o","g","r","a","m">>
q_scatter_line == <<"s","c","a","t","t","e","r"," ","o","r"," ","l","i","n","e">>
q_boxplot_heatmap ==
    <<"b","o","x","p","l","o","t"," ","t","h","e","n"," ","h","e","a","t","m","a","p">>
q_show_correlation ==
    <<"s","h","o","w"," ","c","o","r","r","e","l","a","t","i","o","n">>
q_plot_it == <<"p","l","o","t"," ","i","t">>
q_box_and_bar == <<"b","o","x"," ","a","n","d"," ","b","a","r">>
q_hist_scatter == <<"h","i","s","t"," ","s","c","a","t","t","e","r">>

(***************************************************************************)
(* The state of each part of the model while another part is checked.      *)
(***************************************************************************)
IdleEnv == Env(Returned(ResNone), Returned(ResNone), FALSE)

\* What a run of the script did: the message of the upload block, the
\* Query submitted with the run (<<>> when none was), whether the chat input
\* handler ran, and then what the external agent did and the call made.
Run(notice, prompt, asked, env, call) ==
    [notice |-> notice, prompt |-> prompt, asked |-> asked, env |-> env,
     call |-> call]

NoRun == Run("none", <<>>, FALSE, IdleEnv, NotCalled)

FormatIdle == fmt_in = ResNone /\ fmt_out = Pending /\ fmt_again = Pending

ChartIdle ==
    /\ chart_df = EmptyFrame
    /\ chart_prompt = <<>>
    /\ chart_fault = FALSE
    /\ chart_out = NoPlot

RouteIdle ==
    /\ route_df = EmptyFrame
    /\ route_prompt = <<>>
    /\ route_env = IdleEnv
    /\ route_out = NotCalled

\* lines 50-51: the Conversation starts empty, and nothing is uploaded
SessionInit ==
    /\ uploaded_file = NoFile
    /\ session_df = NoDataset
    /\ messages = <<>>
    /\ last_run = NoRun

(***************************************************************************)
(* SpecFormat: format_response applied to every AnalysisResult of a        *)
(* bounded set, and once more to the string it returned.                   *)
(***************************************************************************)
SeqsUpTo(S, n) == UNION {[1..k -> S] : k \in 0..n}

ErrMsgs == {<<"b","o","o","m">>, <<"c","a","n","'","t">>}

FormatStrings ==
    {<<>>, <<"a">>, <<"i","t","'","s">>, <<"\"","c","\"">>, NO_RESULTS}

FormatValues ==
    {StrVal(s) : s \in FormatStrings} \cup {IntVal(7), IntVal(12)}
        \cup {BadVal(m) : m \in ErrMsgs}

FormatKeys == {StrVal(<<"a">>), StrVal(<<"b","'">>)}

\* a dict holds each key once
FormatEntries ==
    {es \in SeqsUpTo({Entry(k, v) : k \in FormatKeys,
                                     v \in {v_its, IntVal(7), BadVal(<<"b","o","o","m">>)}},
                     MaxLen) :
        \A i, j \in DOMAIN es : es[i].key = es[j].key => i = j}

FormatInputs ==
    {ResNone}
        \cup {ResFrame(d) : d \in {DF_ItemPrice, DF_Empty}}
        \cup {ResList(items) : items \in SeqsUpTo(FormatValues, MaxLen)}
        \cup {ResDict(es) : es \in FormatEntries}
        \cup {ResScalar(v) : v \in FormatValues}

FormatInit ==
    /\ fmt_in \in FormatInputs
    /\ fmt_out = Pending
    /\ fmt_again = Pending
    /\ ChartIdle /\ RouteIdle /\ SessionInit

\* the call format_response(fmt_in)
ApplyFormat ==
    /\ fmt_out = Pending
    /\ fmt_out' = format_response(fmt_in)
    /\ UNCHANGED <<fmt_in, fmt_again, chart_vars, route_vars, session_vars>>

\* the returned string handed to format_response once more
FormatAgain ==
    /\ fmt_out.kind = "str"
    /\ fmt_again = Pending
    /\ fmt_again' = format_response(ResOfStr(fmt_out.s))
    /\ UNCHANGED <<fmt_in, fmt_out, chart_vars, route_vars, session_vars>>

FormatNext == ApplyFormat \/ FormatAgain

SpecFormat == FormatInit /\ [][FormatNext]_vars

\* an AnalysisResult that is absent or empty
IsEmptyResult(r) ==
    \/ r.kind = "none"
    \/ r.kind = "list" /\ r.items = <<>>
    \/ r.kind = "dict" /\ r.entries = <<>>

\* C3: format_response returns exactly "No results found." for every
\* AnalysisResult that is None, an empty sequence or an empty mapping.
C3_EmptyGivesNoResults ==
    (fmt_out # Pending /\ IsEmptyResult(fmt_in)) => fmt_out = PyStr(NO_RESULTS)

\* C4 as stated: whenever format_response(r) is a string s,
\* format_response(s) = s.
C4_Idempotent ==
    (fmt_out.kind = "str" /\ fmt_again # Pending) => fmt_again = fmt_out

NotQuote(c) == c \notin {"'", "\""}

\* C4 amended: formatting a returned string s again gives s with its quote
\* characters removed and nothing else changed; so it gives s itself
\* whenever s holds no quote character, which is the case for every s made
\* from None or from a scalar whose str() succeeds.
C4_IdempotentUpToQuotes ==
    (fmt_out.kind = "str" /\ fmt_again # Pending) =>
        /\ fmt_again = PyStr(SelectSeq(fmt_out.s, NotQuote))
        /\ (\A i \in DOMAIN fmt_out.s : NotQuote(fmt_out.s[i])) => fmt_again = fmt_out
        /\ (fmt_in.kind = "none" \/ (fmt_in.kind = "scalar" /\ Printable(fmt_in.val)))
                => fmt_again = fmt_out

\* a scalar holding quotes was formatted, and the string formatted again
C4_Witness ==
    /\ fmt_in.kind = "scalar"
    /\ Printable(fmt_in.val)
    /\ Contains(Str(fmt_in.val), DQUOTE)
    /\ fmt_out.kind = "str"
    /\ fmt_again = fmt_out

(***************************************************************************)
(* SpecChart: plot_and_display_chart applied to every Dataset and Query of *)
(* a bounded set, with and without a fault of the plotting library.        *)
(***************************************************************************)
ChartPrompts ==
    {q_bar_and_pie, q_PIE, q_outline_hist, q_scatter_line, q_plot_hist,
     q_boxplot_heatmap, q_show_correlation, q_plot_it, q_box_and_bar,
     q_hist_scatter, q_show_pie, q_bar_chart, q_average}

ChartInit ==
    /\ chart_df \in Datasets
    /\ chart_prompt \in ChartPrompts
    /\ chart_fault \in BOOLEAN
    /\ chart_out = NoPlot
    /\ FormatIdle /\ RouteIdle /\ SessionInit

\* the call plot_and_display_chart(chart_df, chart_prompt)
ApplyChart ==
    /\ chart_out = NoPlot
    /\ chart_out' = plot_and_display_chart(chart_df, chart_prompt, chart_fault)
    /\ UNCHANGED <<chart_df, chart_prompt, chart_fault,
                   fmt_vars, route_vars, session_vars>>

SpecChart == ChartInit /\ [][ApplyChart]_vars

\* the branches in their priority order, and the keyword of each
Priority == <<"bar", "pie", "line", "scatter", "hist", "box", "heatmap">>

KeywordsOf(branch) ==
    CASE branch = "bar" -> {k_bar}
      [] branch = "pie" -> {k_pie}
      [] branch = "line" -> {k_line}
      [] branch = "scatter" -> {k_scatter}
      [] branch = "hist" -> {k_hist}
      [] branch = "box" -> {k_box}
      [] branch = "heatmap" -> {k_heatmap, k_correlation}

Mentions(prompt, branch) ==
    \E k \in KeywordsOf(branch) : Contains(Lower(prompt), k)

CountOf(df, dtypes) ==
    Cardinality({i \in DOMAIN df.columns : df.columns[i].dtype \in dtypes})

NumNumeric(df) == CountOf(df, {"int64", "float64"})

NumCategorical(df) == CountOf(df, {"object", "category"})

\* the column requirement of a branch
RequirementMet(branch, df) ==
    CASE branch \in {"bar", "pie"} -> NumCategorical(df) >= 1
      [] branch \in {"line", "scatter", "heatmap", "default"} -> NumNumeric(df) >= 2
      [] branch = "hist" -> NumNumeric(df) >= 1
      [] branch = "box" -> NumNumeric(df) >= 1 /\ NumCategorical(df) >= 1

\* the plotting calls of a branch
ChartKindsOf(branch) ==
    CASE branch = "bar" -> {"barplot", "countplot"}
      [] branch = "pie" -> {"pie_sum", "pie_counts"}
      [] branch = "line" -> {"lineplot"}
      [] branch = "scatter" -> {"scatterplot"}
      [] branch = "hist" -> {"histplot"}
      [] branch = "box" -> {"boxplot"}
      [] branch \in {"heatmap", "default"} -> {"heatmap"}

\* C5: the call takes the first branch, in the priority order bar, pie,
\* line, scatter, hist, box, heatmap/correlation, whose keyword is a
\* substring of the lower-cased Query, or the default branch when no keyword
\* is; it displays at most one chart, that of the branch taken, and none
\* when the column requirement of the branch is not met.
C5_FirstMatchWins ==
    chart_out # NoPlot =>
        LET b == chart_out.branch
        IN  /\ \/ /\ b = "default"
                  /\ \A i \in DOMAIN Priority : ~Mentions(chart_prompt, Priority[i])
               \/ \E i \in DOMAIN Priority :
                      /\ b = Priority[i]
                      /\ Mentions(chart_prompt, b)
                      /\ \A j \in 1..(i - 1) : ~Mentions(chart_prompt, Priority[j])
            /\ Len(chart_out.charts) <= 1
            /\ \A i \in DOMAIN chart_out.charts :
                   chart_out.charts[i].kind \in ChartKindsOf(b)
            /\ ~RequirementMet(b, chart_df) => chart_out.charts = <<>>

\* a Query naming bar and pie took the bar branch and displayed its chart
C5_Witness ==
    /\ chart_out.branch = "bar"
    /\ Mentions(chart_prompt, "pie")
    /\ Len(chart_out.charts) = 1

(***************************************************************************)
(* SpecRouter: chat_with_csv applied to every Dataset and Query of a       *)
(* bounded set, under every behaviour of the external agent: its           *)
(* construction raises (no API key), its chat call raises, or the chat     *)
(* call returns an AnalysisResult.                                         *)
(***************************************************************************)
m_no_key == <<"n","o"," ","k","e","y">>
m_timeout == <<"t","i","m","e","o","u","t">>

RouterPrompts ==
    {q_outline_hist, q_item_names, q_list_items, q_List_Items, q_list_Item, q_list_names,
     q_prices, q_show_list_price, q_plot_hist, q_small_items, q_average,
     q_show_pie, q_bar_chart}

AgentResults ==
    {ResNone,
     ResScalar(StrVal(<<"i","t","'","s"," ","4">>)),
     ResList(<<v_pen>>),
     ResFrame(DF_Nums)}

RouterEnvs ==
    {Env(c, r, f) : c \in {Returned(ResNone), Raised(m_no_key)},
                    r \in {Raised(m_timeout)} \cup {Returned(x) : x \in AgentResults},
                    f \in BOOLEAN}

RouterInit ==
    /\ route_df \in Datasets
    /\ route_prompt \in RouterPrompts
    /\ route_env \in RouterEnvs
    /\ route_out = NotCalled
    /\ FormatIdle /\ ChartIdle /\ SessionInit

\* the call chat_with_csv(route_df, route_prompt)
ApplyRouter ==
    /\ route_out = NotCalled
    /\ route_out' = chat_with_csv(route_df, route_prompt, route_env)
    /\ UNCHANGED <<route_df, route_prompt, route_env,
                   fmt_vars, chart_vars, session_vars>>

SpecRouter == RouterInit /\ [][ApplyRouter]_vars

\* the call was made
Routed == route_out # NotCalled

\* event is among the calls the routed Query made
Logged(event) == \E i \in DOMAIN route_out.log : route_out.log[i] = event

\* how many times
TimesLogged(event) ==
    Cardinality({i \in DOMAIN route_out.log : route_out.log[i] = event})

\* the values of a column, each kept where it is first observed
RECURSIVE FirstObserved(_)
FirstObserved(values) ==
    IF values = <<>> THEN <<>>
    ELSE <<Head(values)>>
            \o FirstObserved(SelectSeq(Tail(values), LAMBDA v : v # Head(values)))

\* one line "- value" per value, the lines separated by "\n"
RECURSIVE BulletLines(_)
BulletLines(values) ==
    IF values = <<>> THEN <<>>
    ELSE BULLET \o Str(Head(values))
            \o (IF Len(values) > 1 THEN <<"\n">> \o BulletLines(Tail(values)) ELSE <<>>)

\* the columns of df named name
ColumnsNamed(df, name) == {i \in DOMAIN df.columns : df.columns[i].name = name}

\* s starts with prefix
StartsWith(s, prefix) ==
    Len(s) >= Len(prefix) /\ SubSeq(s, 1, Len(prefix)) = prefix

\* C1: for a Query holding "what are all" or "list all" whose derived column
\* name is a column of the Dataset, chat_with_csv returns the distinct values
\* of that column in first-observed order, one "- " line each, and the
\* agent's chat call is not made.
C1_DirectLookupAnswers ==
    (Routed /\ ListIntent(route_prompt)
        /\ ColumnsNamed(route_df, column_name(route_prompt)) # {}) =>
        /\ \E i \in ColumnsNamed(route_df, column_name(route_prompt)) :
               route_out.ret =
                   PyStr(BulletLines(FirstObserved(route_df.columns[i].values)))
        /\ ~Logged("chat")

\* the Dataset's columns are exactly item and price
ItemAndPrice(df) == ColumnNames(df) = <<c_item, c_price>>

\* C2 as stated: with columns exactly item and price, "what are all item
\* names" derives the column name "item" and is answered by the direct
\* lookup on column item, without a call of the agent.
C2_ItemNamesLookup ==
    (Routed /\ ItemAndPrice(route_df) /\ route_prompt = q_item_names) =>
        /\ column_name(route_prompt) = c_item
        /\ route_out.lookup = c_item
        /\ ~Logged("chat")

\* C2 amended: with columns exactly item and price, "what are all item
\* names" derives the column name "item name", which is no column of the
\* Dataset, so the direct lookup does not answer it: the Query goes to the
\* external agent, whose chat call is made unless its construction raised.
C2_ItemNamesDelegated ==
    (Routed /\ ItemAndPrice(route_df) /\ route_prompt = q_item_names) =>
        /\ column_name(route_prompt) = c_item_name
        /\ route_out.lookup = <<>>
        /\ ~Logged("lookup")
        /\ Logged("chat") <=> ~route_env.construct.raised
        /\ (~route_env.construct.raised /\ ~route_env.chat.raised) =>
               route_out.ret = format_response(route_env.chat.result)

\* the example Query was delegated and the agent's answer returned
C2_Witness ==
    /\ Routed /\ ItemAndPrice(route_df) /\ route_prompt = q_item_names
    /\ Logged("chat")
    /\ route_out.ret = PyStr(<<"i","t","s"," ","4">>)

\* the external agent returned a result to the routed Query
AgentReturned ==
    /\ Logged("chat")
    /\ ~route_env.construct.raised
    /\ ~route_env.chat.raised

\* the Query names a plot
AsksForPlot(prompt) ==
    \/ Contains(Lower(prompt), <<"p","l","o","t">>)
    \/ Contains(Lower(prompt), <<"g","r","a","p","h">>)
    \/ Contains(Lower(prompt), <<"c","h","a","r","t">>)
    \/ Contains(Lower(prompt), <<"v","i","s","u","a","l","i","z","e">>)
    \/ Contains(Lower(prompt), <<"s","h","o","w">>)

\* C6: the Chart Selector is invoked only after the agent's chat call
\* returned, exactly once when the Query holds one of plot, graph, chart,
\* visualize, show and not at all otherwise; never on the direct-lookup
\* path and never when the agent raised.
C6_ChartAfterAgent ==
    Routed =>
        /\ TimesLogged("plot") =
               (IF AgentReturned /\ AsksForPlot(route_prompt) THEN 1 ELSE 0)
        /\ \A i \in DOMAIN route_out.log :
               route_out.log[i] = "plot" =>
                   \E j \in 1..(i - 1) : route_out.log[j] = "chat"
        /\ (Logged("lookup") \/ Logged("except")) => ~Logged("plot")
        /\ (route_env.construct.raised \/ (Logged("chat") /\ route_env.chat.raised))
               => ~Logged("plot")
        /\ Logged("plot") <=> route_out.plot # NoPlot

\* a plotting Query answered by the agent, the chart drawn after the answer
C6_Witness ==
    /\ Routed /\ route_prompt = q_plot_hist
    /\ route_out.log = <<"construct", "chat", "plot", "format">>
    /\ route_out.plot.branch = "hist"
    /\ Len(route_out.plot.charts) = 1

HasUpper(s) ==
    \E i \in DOMAIN s : \E k \in DOMAIN UpperLetters : s[i] = UpperLetters[k]

f_items_csv ==
    File(<<"a",".","c","s","v">>, Returned(ResFrame(DF_ItemPrice)), Raised(m_timeout))

f_nums_XLSX ==
    File(<<"n",".","X","L","S","X">>, Raised(m_timeout), Returned(ResFrame(DF_Nums)))

\* a .csv file that pd.read_csv cannot parse
f_bad_csv ==
    File(<<"b","a","d",".","c","s","v">>, Raised(m_timeout), Raised(m_timeout))

\* CSV text under an Excel name: pd.read_excel raises
f_bad_xls ==
    File(<<"b",".","x","l","s">>, Returned(ResFrame(DF_Names)), Raised(m_timeout))

\* CSV text under an extension the script does not know (the script's own
\* test of line 267; the uploader's type list is the framework's)
f_txt ==
    File(<<"n",".","t","x","t">>, Returned(ResFrame(DF_Names)), Raised(m_timeout))

Files == {f_items_csv, f_nums_XLSX, f_bad_csv, f_bad_xls, f_txt}

SessionPrompts == {q_list_items, q_item_names, q_plot_hist}

SessionEnvs ==
    {Env(Raised(m_no_key), Returned(ResNone), FALSE),
     Env(Returned(ResNone), Raised(m_timeout), FALSE),
     Env(Returned(ResNone), Returned(ResScalar(StrVal(<<"i","t","'","s"," ","4">>))), FALSE),
     Env(Returned(ResNone), Returned(ResFrame(DF_Nums)), FALSE)}

\* One run of the script: the upload block on the file the uploader holds,
\* then, when a Dataset is stored, the chat block on the submitted Query.
ScriptRun(file, prompt, env) ==
    LET up == upload_handler(session_df, file)
        asked == up.dataset.present /\ prompt # <<>>
        call == IF asked THEN chat_with_csv(up.dataset.df, prompt, env) ELSE NotCalled
    IN  /\ uploaded_file' = file
        /\ session_df' = up.dataset
        /\ messages' = IF asked THEN chat_input_handler(messages, call, prompt)
                       ELSE messages
        /\ last_run' = Run(up.notice, prompt, asked,
                           IF asked THEN env ELSE IdleEnv, call)
        /\ UNCHANGED <<fmt_vars, chart_vars, route_vars>>

\* the user puts file f in the uploader
Upload(f) ==
    /\ f # uploaded_file
    /\ ScriptRun(f, <<>>, IdleEnv)

\* the user removes the file from the uploader
RemoveFile ==
    /\ uploaded_file # NoFile
    /\ ScriptRun(NoFile, <<>>, IdleEnv)

\* the user submits Query p, and the external agent behaves as e
Ask(p, e) ==
    /\ Len(messages) < 2 * MaxQueries
    /\ ScriptRun(uploaded_file, p, e)

Init == FormatIdle /\ ChartIdle /\ RouteIdle /\ SessionInit

Next ==
    \/ \E f \in Files : Upload(f)
    \/ RemoveFile
    \/ \E p \in SessionPrompts, e \in SessionEnvs : Ask(p, e)

Spec == Init /\ [][Next]_vars

\* the external agent raised while the last run handled its Query
AgentRaisedInRun ==
    /\ last_run.asked
    /\ \/ last_run.env.construct.raised
       \/ /\ \E i \in DOMAIN last_run.call.log : last_run.call.log[i] = "chat"
          /\ last_run.env.chat.raised

\* C7: when the external agent (its construction or its chat call) raises
\* while a Query is handled, no exception leaves chat_with_csv: it returns a
\* string starting with "Error processing query: ", that string is the
\* assistant turn appended after the user turn of the Query, and the session
\* keeps its Dataset, so that the chat block runs for the next Query.
C7_AgentFaultBecomesTurn ==
    AgentRaisedInRun =>
        /\ ~last_run.call.raised
        /\ last_run.call.ret.kind = "str"
        /\ StartsWith(last_run.call.ret.s, ERROR_PROCESSING)
        /\ Len(messages) >= 2
        /\ messages[Len(messages) - 1] = Turn("user", PyStr(last_run.prompt))
        /\ messages[Len(messages)] = Turn("assistant", last_run.call.ret)
        /\ session_df.present

\* a Query whose agent call raised, then a Query answered from the Dataset
C7_Witness ==
    /\ Len(messages) = 4
    /\ StartsWith(messages[2].content.s, ERROR_PROCESSING)
    /\ messages[4].content.kind = "str"
    /\ ~StartsWith(messages[4].content.s, ERROR_PROCESSING)
    /\ last_run.asked

\* the parser the script picks for a file raises, or it picks none
UploadFails(file) ==
    LET ext == Lower(SplitLast(file.name, <<".">>))
    IN  \/ ext = x_csv /\ file.read_csv.raised
        \/ ext \in {x_xlsx, x_xls} /\ file.read_excel.raised
        \/ ext \notin {x_csv, x_xlsx, x_xls}

C8_Step ==
    (uploaded_file' # NoFile /\ UploadFails(uploaded_file')) =>
        /\ session_df' = session_df
        /\ last_run'.notice \in {"unsupported", "read_error"}

\* C8: a run of the script on an upload whose extension is unsupported or
\* whose file fails to parse shows an error and leaves
\* st.session_state['df'] exactly as it was: a stored Dataset is kept, and
\* none is stored if none was.
C8_FailedUploadKeepsDataset == [][C8_Step]_vars

\* a Dataset was stored, and a later upload that failed to parse left it
\* in place
C8_Witness ==
    /\ uploaded_file = f_bad_csv
    /\ last_run.notice = "read_error"
    /\ session_df = Stored(DF_ItemPrice)

\* the turns alternate user, assistant, starting with user
C9_Alternates ==
    /\ Len(messages) % 2 = 0
    /\ \A i \in DOMAIN messages :
           messages[i].role = (IF i % 2 = 1 THEN "user" ELSE "assistant")

C9_Step ==
    /\ Len(messages') >= Len(messages)
    /\ SubSeq(messages', 1, Len(messages)) = messages
    /\ IF last_run'.prompt # <<>> /\ session_df'.present
       THEN /\ Len(messages') = Len(messages) + 2
            /\ messages'[Len(messages) + 1] = Turn("user", PyStr(last_run'.prompt))
            /\ messages'[Len(messages) + 2].role = "assistant"
       ELSE messages' = messages

\* C9: the Conversation is append-only and well-formed: no run of the script
\* changes, reorders or removes a turn; a submitted Query adds exactly one
\* user turn holding it and then one assistant turn, so the turns alternate
\* user, assistant; a Query submitted while no Dataset is stored, and a run
\* with no Query, add no turn.
C9_AppendOnlyConversation == []C9_Alternates /\ [][C9_Step]_vars

\* two Queries answered, the second with a table, after a change of Dataset
C9_Witness ==
    /\ Len(messages) = 4
    /\ messages[4].content.kind = "df"
    /\ messages[3].content # messages[1].content
    /\ session_df = Stored(DF_Nums)

====
